---------------------------- MODULE Spec2Model ----------------------------
(***************************************************************************)
(* A model of src/app.py, the Streamlit scraper: the sheet namer           *)
(* (clean_url_for_sheet_name), the section extractor                       *)
(* (extract_section_content), the scraping loop (scrape_urls), the driver  *)
(* loop that calls it, the results display and the exports.                *)
(*                                                                         *)
(* URLs and sheet names are sequences of one-character strings, so that    *)
(* splitting, stripping, substitution and truncation are computed as the   *)
(* code computes them.  Page text is TLA+ strings.  Python dicts are       *)
(* insertion-ordered: a dict is a sequence of <<key, value>> pairs with    *)
(* distinct keys.                                                          *)
(***************************************************************************)
EXTENDS Integers, Sequences, FiniteSets, TLC

VARIABLES
    sn_url,     \* clean_url_for_sheet_name: the argument url
    sn_pc,      \* clean_url_for_sheet_name: "call" before, "done" after
    sn_out,     \* clean_url_for_sheet_name: what the call produced
    doc,        \* extract_section_content: the argument soup
    ex_pc,      \* extract_section_content: "parse", "catalog", "done"
    sections,   \* extract_section_content: the dict sections
    sec_by,     \* for each name of sections, the passes that assigned it, in order
    config,       \* the options: title_selector, the checkboxes, excel_option
    su_urls,    \* scrape_urls: the argument urls
    su_i,       \* scrape_urls: the loop index i (from 0)
    su_pc,      \* scrape_urls: "idle", "fetch", "process", "sleep", "return"
    su_resp,    \* scrape_urls: what requests.get gave for the current url
    su_got,     \* scrape_urls: what requests.get gave for each url so far
    su_trace,   \* scrape_urls: the fetches, stores and sleeps of the call, in order
    all_data,   \* scrape_urls: the list all_data
    su_map,     \* scrape_urls: the dict url_data_map of the call
    scraped_data,       \* st.session_state.scraped_data
    url_data_map,       \* st.session_state.url_data_map
    current_index,      \* st.session_state.current_index
    trigger_scraping,   \* st.session_state.trigger_scraping
    is_scraping,        \* st.session_state.is_scraping
    url_text,   \* the non-empty, stripped lines of the URL text area
    drv_pc,     \* the script: "idle", "triggered", "loop", "call", "finished"
    drv_i,      \* the driver loop's index i
    shown,      \* the table given to st.dataframe
    csv,        \* the table of the CSV download
    excel_data  \* the outcome of the Excel export

sheetVars == <<sn_url, sn_pc, sn_out>>

extractVars == <<doc, ex_pc, sections, sec_by>>

scrapeVars == <<su_urls, su_i, su_pc, su_resp, su_got, su_trace, all_data, su_map>>

sessionVars == <<scraped_data, url_data_map, current_index, trigger_scraping,
                 is_scraping, url_text, drv_pc, drv_i>>

renderVars == <<shown, csv, excel_data>>

appVars == <<config, scrapeVars, sessionVars, renderVars>>

vars == <<sheetVars, extractVars, appVars>>

(***************************************************************************)
(* Character sequences                                                     *)
(***************************************************************************)

\* n copies of the character c
Rep(c, n) == [k \in 1..n |-> c]

\* str.find(c): the first index of c in s, 0 when absent (Python's -1)
Find(s, c) ==
    IF \E k \in 1..Len(s) : s[k] = c
    THEN CHOOSE k \in 1..Len(s) : s[k] = c /\ \A j \in 1..(k-1) : s[j] # c
    ELSE 0

\* the first index >= from of a character of the set cs, Len(s)+1 when none
FindAny(s, cs, from) ==
    IF \E k \in from..Len(s) : s[k] \in cs
    THEN CHOOSE k \in from..Len(s) :
            s[k] \in cs /\ \A j \in from..(k-1) : s[j] \notin cs
    ELSE Len(s) + 1

\* s[a-1:b-1] of Python, 1-based and inclusive here
Slice(s, a, b) == IF a > b THEN <<>> ELSE SubSeq(s, a, b)

\* str.startswith(p)
StartsWith(s, p) == Len(s) >= Len(p) /\ SubSeq(s, 1, Len(p)) = p

\* str.split(c): the pieces of s between occurrences of c (never empty list)
RECURSIVE Split(_, _)
Split(s, c) ==
    LET k == Find(s, c)
    IN  IF k = 0 THEN <<s>>
        ELSE <<Slice(s, 1, k - 1)>> \o Split(Slice(s, k + 1, Len(s)), c)

\* str.strip(c): s without its leading and trailing runs of c
RECURSIVE LStrip(_, _)
LStrip(s, c) == IF s # <<>> /\ s[1] = c THEN LStrip(Tail(s), c) ELSE s

RECURSIVE RStrip(_, _)
RStrip(s, c) ==
    IF s # <<>> /\ s[Len(s)] = c THEN RStrip(Slice(s, 1, Len(s) - 1), c) ELSE s

StripChar(s, c) == RStrip(LStrip(s, c), c)

Letters ==
    {"a","b","c","d","e","f","g","h","i","j","k","l","m","n","o","p","q","r",
     "s","t","u","v","w","x","y","z",
     "A","B","C","D","E","F","G","H","I","J","K","L","M","N","O","P","Q","R",
     "S","T","U","V","W","X","Y","Z"}

Digits == {"0","1","2","3","4","5","6","7","8","9"}

(***************************************************************************)
(* urllib.parse.urlparse, as far as clean_url_for_sheet_name reads it:     *)
(* netloc and path, or ValueError.  The inputs hold no whitespace, no      *)
(* control character and no ';', so the stripping of those and the         *)
(* params split do nothing here.                                           *)
(***************************************************************************)

SchemeChars == Letters \cup Digits \cup {"+", "-", "."}

\* url[:i] is taken as the scheme when it starts with a letter and holds
\* scheme characters only; the rest follows the ':'
AfterScheme(url) ==
    LET i == Find(url, ":")
    IN  IF /\ i > 1
           /\ url[1] \in Letters
           /\ \A k \in 1..(i-1) : url[k] \in SchemeChars
        THEN Slice(url, i + 1, Len(url))
        ELSE url

\* urlsplit raises ValueError("Invalid IPv6 URL") for a netloc with one
\* square bracket and not the other
NetlocRejected(netloc) ==
    LET open  == \E k \in 1..Len(netloc) : netloc[k] = "["
        close == \E k \in 1..Len(netloc) : netloc[k] = "]"
    IN  open # close

urlparse(url) ==
    LET rest    == AfterScheme(url)
        hasNet  == StartsWith(rest, <<"/", "/">>)
        delim   == FindAny(rest, {"/", "?", "#"}, 3)
        netloc  == IF hasNet THEN Slice(rest, 3, delim - 1) ELSE <<>>
        tail    == IF hasNet THEN Slice(rest, delim, Len(rest)) ELSE rest
        noFrag  == Slice(tail, 1, FindAny(tail, {"#"}, 1) - 1)
        path    == Slice(noFrag, 1, FindAny(noFrag, {"?"}, 1) - 1)
    IN  [raised |-> hasNet /\ NetlocRejected(netloc),
         netloc |-> netloc,
         path   |-> path]

(***************************************************************************)
(* clean_url_for_sheet_name                                                *)
(***************************************************************************)

\* Excel's limit on the length of a sheet name
SheetNameLimit == 31

\* the characters re.sub(r'[\[\]:*?/\\]', '-', ...) replaces
InvalidSheetChars == {"[", "]", ":", "*", "?", "/", "\\"}

\* re.sub of the invalid characters by '-'
ReplaceInvalid(s) ==
    [k \in 1..Len(s) |-> IF s[k] \in InvalidSheetChars THEN "-" ELSE s[k]]

\* a mutant of Truncate: the slice keeps one character too many
TruncateOffByOne(s) ==
    IF Len(s) > SheetNameLimit THEN SubSeq(s, 1, SheetNameLimit + 1) ELSE s

\* if len(sheet_name) > 31: sheet_name = sheet_name[:31]
Truncate(s) ==
    IF Len(s) > SheetNameLimit THEN SubSeq(s, 1, SheetNameLimit) ELSE s

\* the name built from a parsed url
SheetNameOf(parsed) ==
    LET labels == Split(parsed.netloc, ".")
        domain == IF Len(labels) > 1 THEN labels[Len(labels) - 1] ELSE labels[1]
        segs   == Split(StripChar(parsed.path, "/"), "/")
        last   == segs[Len(segs)]
        path   == IF last # <<>> THEN last ELSE <<"h", "o", "m", "e">>
    IN  Truncate(ReplaceInvalid(domain \o <<"-">> \o path))

\* the call: a name, or the ValueError urlparse raised
clean_url_for_sheet_name(url) ==
    LET parsed == urlparse(url)
    IN  IF parsed.raised
        THEN [raised |-> TRUE,  name |-> <<>>]
        ELSE [raised |-> FALSE, name |-> SheetNameOf(parsed)]

(***************************************************************************)
(* Python dicts: insertion-ordered, a sequence of <<key, value>> pairs     *)
(***************************************************************************)

Indices(q) == [k \in 1..Len(q) |-> k]

Keys(d) == [k \in 1..Len(d) |-> d[k][1]]

Has(d, key) == \E k \in 1..Len(d) : d[k][1] = key

\* d[key], for a key of d
Get(d, key) == d[CHOOSE k \in 1..Len(d) : d[k][1] = key][2]

\* a mutant of Put: a present key keeps its value (dict.setdefault)
PutIfAbsent(d, key, val) ==
    IF Has(d, key) THEN d ELSE Append(d, <<key, val>>)

\* d[key] = val: a present key keeps its place, a new key goes last
Put(d, key, val) ==
    IF Has(d, key)
    THEN [k \in 1..Len(d) |-> IF d[k][1] = key THEN <<key, val>> ELSE d[k]]
    ELSE Append(d, <<key, val>>)

\* d without key (dict.pop on a copy)
Without(d, key) == SelectSeq(d, LAMBDA e : e[1] # key)

\* the pairs of upd put into d one after the other
RECURSIVE PutAll(_, _)
PutAll(d, upd) ==
    IF upd = <<>> THEN d ELSE PutAll(Put(d, Head(upd)[1], Head(upd)[2]), Tail(upd))

\* "sep".join(parts)
RECURSIVE Join(_, _)
Join(parts, sep) ==
    IF parts = <<>> THEN ""
    ELSE IF Len(parts) = 1 THEN parts[1]
    ELSE parts[1] \o sep \o Join(Tail(parts), sep)

\* the concatenation of a sequence of sequences
RECURSIVE Flatten(_)
Flatten(qs) == IF qs = <<>> THEN <<>> ELSE Head(qs) \o Flatten(Tail(qs))

(***************************************************************************)
(* The parsed document (BeautifulSoup).  A document is the sequence of its *)
(* elements in document order; an element is                               *)
(*   [tag, cls, par, txt, name, content]:                                  *)
(* its tag name, the tokens of its class attribute (<<>> when it has       *)
(* none), the index of its parent element (0: a child of the document      *)
(* itself), the strings of its text nodes (which precede its child         *)
(* elements), and for a meta element its name and content attributes       *)
(* (content <<>> when absent).                                             *)
(***************************************************************************)

El(tag, cls, par, txt) ==
    [tag |-> tag, cls |-> cls, par |-> par, txt |-> txt,
     name |-> "", content |-> <<>>]

Meta(name, content, par) ==
    [tag |-> "meta", cls |-> <<>>, par |-> par, txt |-> <<>>,
     name |-> name, content |-> content]

\* str.strip() on the text strings of the documents: " " is the
\* whitespace-only string, " RM 10 " a padded one, the others have no
\* whitespace at either end
Strip(str) ==
    CASE str = " "       -> ""
      [] str = " RM 10 " -> "RM 10"
      [] OTHER           -> str

\* the indices of the ancestors of element i, nearest first (.parents,
\* without the document object that ends it)
RECURSIVE Ancestors(_, _)
Ancestors(d, i) ==
    IF d[i].par = 0 THEN <<>> ELSE <<d[i].par>> \o Ancestors(d, d[i].par)

IsDescendant(d, j, i) == \E k \in 1..Len(Ancestors(d, j)) : Ancestors(d, j)[k] = i

\* the descendants of element i (of the whole document when i = 0), in
\* document order
Descendants(d, i) ==
    SelectSeq(Indices(d), LAMBDA j : i = 0 \/ IsDescendant(d, j, i))

\* element.get_text(strip=True): the stripped, non-empty strings of the
\* element and of its descendants, in document order
TextParts(d, i) ==
    LET own(j) == SelectSeq([k \in 1..Len(d[j].txt) |-> Strip(d[j].txt[k])],
                            LAMBDA t : t # "")
        nodes  == SelectSeq(Indices(d),
                            LAMBDA j : i = 0 \/ j = i \/ IsDescendant(d, j, i))
    IN  Flatten([k \in 1..Len(nodes) |-> own(nodes[k])])

get_text(d, i) == Join(TextParts(d, i), "")


(***************************************************************************)
(* Pattern matching.  A regular expression of the code is a set of         *)
(* alternative words; ClassWords gives, for each class token of the        *)
(* documents, the words it contains as substrings.                         *)
(***************************************************************************)

ClassWords(token) ==
    CASE token = "panel"         -> {"panel"}
      [] token = "panel-heading" -> {"panel", "heading"}
      [] token = "panel-body"    -> {"panel", "body"}
      [] token = "accordion"     -> {"accordion"}
      [] token = "heading"       -> {"heading"}
      [] token = "title"         -> {"title"}
      [] token = "header"        -> {"header"}
      [] token = "body"          -> {"body"}
      [] token = "content"       -> {"content"}
      [] OTHER                   -> {}

\* re.compile(r'panel|section|accordion')
PanelPattern == {"panel", "section", "accordion"}

\* re.compile(r'heading|title|header')
HeaderPattern == {"heading", "title", "header"}

\* re.compile(r'body|content')
BodyPattern == {"body", "content"}

\* class_=pattern: some token of the class attribute holds a word of the
\* pattern; an element without class attribute never matches
ClassMatches(el, pattern) ==
    \E k \in 1..Len(el.cls) : ClassWords(el.cls[k]) \cap pattern # {}

\* root.find_all(class_=pattern), root 0 being the document
FindAllClass(d, root, pattern) ==
    SelectSeq(Descendants(d, root), LAMBDA j : ClassMatches(d[j], pattern))

\* root.find_all([tags])
FindAllTags(d, root, tags) ==
    SelectSeq(Descendants(d, root), LAMBDA j : d[j].tag \in tags)

\* root.find_all([tags], class_=pattern)
FindAllTagsClass(d, root, tags, pattern) ==
    SelectSeq(Descendants(d, root),
              LAMBDA j : d[j].tag \in tags /\ ClassMatches(d[j], pattern))

\* the first of a find_all, 0 for None (find)
First(found) == IF found = <<>> THEN 0 ELSE found[1]

\* the text strings of the documents that
\* re.compile(section_name, re.IGNORECASE) matches (search), for the catalog
\* names.  The '?' that ends three of the names is the regex operator: it
\* makes the letter before it optional.
CatalogMatches(section_name) ==
    CASE section_name = "Introduction"      -> {"Introduction", "introduction"}
      [] section_name = "Who's eligible?"   -> {"Who's eligible?"}
      [] section_name = "Payment / Charges" -> {"Payment / Charges"}
      [] OTHER                              -> {}

\* soup.find(string=pattern): the first element, in document order, one of
\* whose text nodes the pattern matches; 0 for None
FindString(d, matching) ==
    First(SelectSeq(Indices(d),
                    LAMBDA j : \E k \in 1..Len(d[j].txt) : d[j].txt[k] \in matching))

(***************************************************************************)
(* extract_section_content                                                 *)
(***************************************************************************)

common_sections ==
    << "Introduction", "Who's eligible?", "What you'll need?",
       "How to get the service?", "Payment / Charges", "Need help?" >>

HeadingTags == {"h2", "h3", "h4", "h5"}

\* panels = soup.find_all(class_=re.compile(r'panel|section|accordion'))
panels(d) == FindAllClass(d, 0, PanelPattern)

\* a mutant of RunsHeadingFallback: the fallback taken whenever no panel has
\* both a header and a body, although panel elements exist
FallbackWhenNoPanelUsable(d) ==
    \A k \in 1..Len(panels(d)) :
        \/ FindAllClass(d, panels(d)[k], HeaderPattern) = <<>>
        \/ FindAllClass(d, panels(d)[k], BodyPattern) = <<>>

\* if not panels:
RunsHeadingFallback(d) == panels(d) = <<>>

\* header.find_next_sibling(): the next sibling element, 0 for None
find_next_sibling(d, i) ==
    First(SelectSeq(Indices(d), LAMBDA j : j > i /\ d[j].par = d[i].par))

\* the negation of the while condition: the scan stops at a sibling that is
\* a heading tag and has 'heading' in its class string
StopsScan(el) ==
    /\ el.tag \in HeadingTags
    /\ \E k \in 1..Len(el.cls) : "heading" \in ClassWords(el.cls[k])

\* the while loop: the texts of the siblings from next_elem on
RECURSIVE SiblingTexts(_, _)
SiblingTexts(d, next_elem) ==
    IF next_elem = 0 \/ StopsScan(d[next_elem]) THEN <<>>
    ELSE <<get_text(d, next_elem)>> \o SiblingTexts(d, find_next_sibling(d, next_elem))

\* the assignment sections[title] = ... one header makes, if any
HeadingEntry(d, header) ==
    LET title   == get_text(d, header)
        content == SiblingTexts(d, find_next_sibling(d, header))
    IN  IF title = "" \/ content = <<>> THEN <<>>
        ELSE << <<title, Join(content, "\\n")>> >>

\* Step 2: the assignments of the heading fallback, in order
HeadingPass(d) ==
    LET headers == FindAllTagsClass(d, 0, HeadingTags \cup {"div"}, HeaderPattern)
    IN  Flatten([k \in 1..Len(headers) |-> HeadingEntry(d, headers[k])])

\* the assignment sections[title] = ... one panel makes, if any
PanelEntry(d, panel) ==
    LET header  == First(FindAllClass(d, panel, HeaderPattern))
        title   == get_text(d, header)
        body    == First(FindAllClass(d, panel, BodyPattern))
        items   == FindAllTags(d, body, {"p", "li", "div"})
        content == SelectSeq([k \in 1..Len(items) |-> get_text(d, items[k])],
                             LAMBDA t : t # "")
    IN  IF header = 0 THEN <<>>
        ELSE IF title = "" THEN <<>>
        ELSE IF body = 0 THEN <<>>
        ELSE IF content = <<>> THEN <<>>
        ELSE << <<title, Join(content, "\n")>> >>

\* Step 1: the assignments of the panel pass, in order
PanelPass(d) ==
    Flatten([k \in 1..Len(panels(d)) |-> PanelEntry(d, panels(d)[k])])

\* the assignment sections[section_name] = ... the catalog pass makes for
\* one name, if any
CatalogEntry(d, section_name) ==
    LET section  == FindString(d, CatalogMatches(section_name))
        chain    == IF section = 0 THEN <<>> ELSE <<section>> \o Ancestors(d, section)
        parent   == First(SelectSeq(chain,
                        LAMBDA a : /\ d[a].tag \in {"div", "section"}
                                   /\ FindAllTags(d, a, {"li", "p"}) # <<>>))
        items    == FindAllTags(d, parent, {"p", "li"})
        content  == SelectSeq([k \in 1..Len(items) |-> get_text(d, items[k])],
                              LAMBDA text : text # "" /\ text # section_name)
    IN  IF section = 0 \/ parent = 0 \/ content = <<>> THEN <<>>
        ELSE << <<section_name, Join(content, "\n")>> >>

\* Step 3: the assignments of the catalog pass, in order
CatalogPass(d) ==
    Flatten([k \in 1..Len(common_sections) |-> CatalogEntry(d, common_sections[k])])

\* the whole function: the sections dict returned
extract_section_content(d) ==
    PutAll(IF RunsHeadingFallback(d) THEN PutAll(<<>>, HeadingPass(d))
                                     ELSE PutAll(<<>>, PanelPass(d)),
           CatalogPass(d))


(***************************************************************************)
(* json.dumps and json.loads of a dict of strings.  The text is a sequence *)
(* of tokens; a string token stands for the JSON string literal of its     *)
(* value (json escapes and restores every character of a str).             *)
(***************************************************************************)

Tok(t, v) == [t |-> t, v |-> v]

RECURSIVE DumpMembers(_)
DumpMembers(d) ==
    IF d = <<>> THEN <<>>
    ELSE <<Tok("str", d[1][1]), Tok(":", ""), Tok("str", d[1][2])>>
         \o (IF Len(d) > 1 THEN <<Tok(",", "")>> ELSE <<>>)
         \o DumpMembers(Tail(d))

json_dumps(d) == <<Tok("{", "")>> \o DumpMembers(d) \o <<Tok("}", "")>>

\* the members "key": "value" of an object, read from the tokens between
\* the braces; raised when they are not well formed
RECURSIVE LoadMembers(_, _)
LoadMembers(toks, acc) ==
    IF toks = <<>> THEN [raised |-> FALSE, value |-> acc]
    ELSE IF /\ Len(toks) >= 3
            /\ toks[1].t = "str" /\ toks[2].t = ":" /\ toks[3].t = "str"
            /\ (Len(toks) = 3 \/ (Len(toks) >= 7 /\ toks[4].t = ","))
         THEN LoadMembers(IF Len(toks) = 3 THEN <<>> ELSE SubSeq(toks, 5, Len(toks)),
                          Put(acc, toks[1].v, toks[3].v))
         ELSE [raised |-> TRUE, value |-> <<>>]

json_loads(text) ==
    IF /\ Len(text) >= 2
       /\ text[1].t = "{"
       /\ text[Len(text)].t = "}"
    THEN LoadMembers(SubSeq(text, 2, Len(text) - 1), <<>>)
    ELSE [raised |-> TRUE, value |-> <<>>]

(***************************************************************************)
(* The field extraction of scrape_urls (the try block after the fetch).    *)
(* The searches in text are given by the text strings of the pages that    *)
(* they match; no match of these patterns straddles two text nodes of the  *)
(* pages, so a search in the concatenated text of an element is a search   *)
(* in its parts.                                                           *)
(***************************************************************************)

\* re.compile("Who's eligible?", re.IGNORECASE)
EligibleMatches == {"Who's eligible?"}

\* re.compile("Payment|Charges|Fee", re.IGNORECASE)
PaymentMatches == {"Fees", "Payment / Charges"}

\* text.lower() holds one of 'copy', 'document', 'certificate', 'id',
\* 'passport'
DocWordTexts == {"Copy of passport"}

\* the lowered text holds one of 'register online', 'available online',
\* 'online service', 'apply online'
OnlineTexts == {"Apply online"}

\* the lowered text holds "free" or "no charge"
FreeTexts == {"Free of charge"}

\* re.search(r'RM\s*(\d+(?:\.\d+)?)', text).group(1), "" when no match
RmAmount(text) == IF text = "RM 10" THEN "10" ELSE ""

\* soup.select_one(title_selector) raises on a selector that is no CSS
ValidSelectors == {"title", "h1"}

\* the first div or section among an element and its ancestors, 0 if none
\* (the element being the parent of the text node found)
FirstContainer(d, section) ==
    IF section = 0 THEN 0
    ELSE First(SelectSeq(<<section>> \o Ancestors(d, section),
                         LAMBDA a : d[a].tag \in {"div", "section"}))

\* soup.find('meta', attrs={'name': name}), 0 for None
FindMeta(d, name) ==
    First(SelectSeq(Descendants(d, 0),
                    LAMBDA j : d[j].tag = "meta" /\ d[j].name = name))

\* the strings of response.text: text nodes and attribute values
ResponseStrings(d) ==
    UNION { {d[j].txt[k] : k \in 1..Len(d[j].txt)}
            \cup {d[j].content[k] : k \in 1..Len(d[j].content)} : j \in 1..Len(d) }

\* data after "Title", "H1 Count", "Links", "Images" and the meta tags
BasicFields(url, d, cfg) ==
    LET title_elem == First(FindAllTags(d, 0, {cfg.title_selector}))
        d1 == Put(<< <<"URL", url>> >>, "Title",
                  IF title_elem # 0 THEN get_text(d, title_elem) ELSE "")
        d2 == Put(d1, "H1 Count", Len(FindAllTags(d, 0, {"h1"})))
        d3 == IF cfg.extract_links
              THEN Put(d2, "Links", Len(FindAllTags(d, 0, {"a"}))) ELSE d2
        d4 == IF cfg.extract_images
              THEN Put(d3, "Images", Len(FindAllTags(d, 0, {"img"}))) ELSE d3
        kw == FindMeta(d, "keywords")
        d5 == IF cfg.extract_meta /\ kw # 0
              THEN Put(d4, "Meta Keywords", Join(d[kw].content, "")) ELSE d4
        ds == FindMeta(d, "description")
    IN  IF cfg.extract_meta /\ ds # 0
        THEN Put(d5, "Meta Description", Join(d[ds].content, "")) ELSE d5

\* data after the section columns and "All Sections"
SectionFields(data, d, cfg) ==
    LET sects == extract_section_content(d)
    IN  IF cfg.extract_sections
        THEN Put(PutAll(data, [k \in 1..Len(sects) |->
                                <<"Section: " \o sects[k][1], sects[k][2]>>]),
                 "All Sections", json_dumps(sects))
        ELSE data

\* data after "Required Documents", "Eligibility Criteria",
\* "Online Registration", "Fee" and "Status"
DomainFields(data, d) ==
    LET lis  == FindAllTags(d, 0, {"li"})
        documents_list ==
            [k \in 1..Len(SelectSeq(lis, LAMBDA j :
                    \E q \in 1..Len(TextParts(d, j)) : TextParts(d, j)[q] \in DocWordTexts))
                |-> get_text(d, SelectSeq(lis, LAMBDA j :
                    \E q \in 1..Len(TextParts(d, j)) : TextParts(d, j)[q] \in DocWordTexts)[k])]
        d1 == IF documents_list # <<>>
              THEN Put(data, "Required Documents", Join(documents_list, "\n")) ELSE data
        elig == FirstContainer(d, FindString(d, EligibleMatches))
        eligibility_list ==
            IF elig = 0 THEN <<>>
            ELSE [k \in 1..Len(FindAllTags(d, elig, {"li"})) |->
                    get_text(d, FindAllTags(d, elig, {"li"})[k])]
        d2 == IF eligibility_list # <<>>
              THEN Put(d1, "Eligibility Criteria", Join(eligibility_list, "\n")) ELSE d1
        d3 == Put(d2, "Online Registration",
                  IF ResponseStrings(d) \cap OnlineTexts # {} THEN "Yes" ELSE "No")
        pay   == FirstContainer(d, FindString(d, PaymentMatches))
        parts == TextParts(d, pay)
        rm    == SelectSeq(parts, LAMBDA t : RmAmount(t) # "")
        d4 == IF pay = 0 THEN d3
              ELSE IF \E q \in 1..Len(parts) : parts[q] \in FreeTexts
                   THEN Put(d3, "Fee", "Free")
              ELSE IF rm # <<>> THEN Put(d3, "Fee", "RM " \o RmAmount(rm[1]))
              ELSE Put(d3, "Fee", get_text(d, pay))
    IN  Put(d4, "Status", "completed")

\* the try block from the parse on: the record, or the exception an
\* extraction step raised
ExtractData(url, d, cfg) ==
    IF cfg.title_selector \notin ValidSelectors
    THEN [raised |-> TRUE, msg |-> "Invalid selector", data |-> <<>>]
    ELSE [raised |-> FALSE, msg |-> "",
          data |-> DomainFields(SectionFields(BasicFields(url, d, cfg), d, cfg), d)]

\* a mutant of error_data: the record of a failure also says that there is
\* no online registration
error_data_with_flag(url, msg) ==
    << <<"URL", url>>, <<"Title", "">>, <<"Status", "Error: " \o msg>>,
       <<"Online Registration", "No">> >>

\* the record of a failure (the except block)
error_data(url, msg) ==
    << <<"URL", url>>, <<"Title", "">>, <<"Status", "Error: " \o msg>> >>

(***************************************************************************)
(* The pages a fetch may return                                            *)
(***************************************************************************)

ServicePage ==
    << El("title", <<>>, 0, <<"Service A">>),
       Meta("description", <<"Service A">>, 0),
       El("h1", <<>>, 0, <<"Service A">>),
       El("div", <<"panel">>, 0, <<>>),
       El("div", <<"panel-heading">>, 4, <<"Who's eligible?">>),
       El("div", <<"panel-body">>, 4, <<>>),
       El("li", <<>>, 6, <<"Must be 18+">>),
       El("li", <<>>, 6, <<"Copy of passport">>) >>

FeesPage ==
    << El("div", <<>>, 0, <<>>),
       El("h3", <<"title">>, 1, <<"Fees">>),
       El("p", <<>>, 1, <<" RM 10 ">>),
       El("a", <<>>, 1, <<"Apply online">>),
       El("img", <<>>, 1, <<>>) >>

EmptyPage == <<>>

Pages == {ServicePage, FeesPage, EmptyPage}


(***************************************************************************)
(* scrape_urls                                                             *)
(***************************************************************************)

Http == <<"h","t","t","p",":","/","/">>

Https == <<"h","t","t","p","s",":","/","/">>

\* if not url.startswith(('http://', 'https://')): url = 'https://' + url
Normalize(url) ==
    IF StartsWith(url, Http) \/ StartsWith(url, Https) THEN url ELSE Https \o url

\* str(e) of the exceptions requests.get and raise_for_status raise for a
\* URL that names a host
FetchErrors == {"Read timed out", "404 Client Error"}

\* str(e) of the exception requests.get raises for a string that is no URL
InvalidUrl == "Invalid URL"

\* what the fetch of url may give: an exception, or the markup of a page.
\* A string that is no URL never gives a page.
Responses(url) ==
    IF urlparse(url).raised
    THEN { [ok |-> FALSE, msg |-> InvalidUrl, page |-> <<>>] }
    ELSE { [ok |-> FALSE, msg |-> m, page |-> <<>>] : m \in FetchErrors }
         \cup { [ok |-> TRUE, msg |-> "", page |-> pg] : pg \in Pages }

NoResponse == [ok |-> FALSE, msg |-> "", page |-> <<>>]

\* a mutant of RecordFor: an exception of the extraction is swallowed, and
\* the record is what had been collected when it was raised
RecordForSwallowing(url, resp, c) ==
    IF ~resp.ok THEN error_data(url, resp.msg)
    ELSE LET r == ExtractData(url, resp.page, c)
         IN  IF r.raised THEN << <<"URL", url>> >> ELSE r.data

\* the record one iteration makes of url and of what the fetch gave: data
\* of the try block, or error_data of the except block
RecordFor(url, resp, c) ==
    IF ~resp.ok THEN error_data(url, resp.msg)
    ELSE LET r == ExtractData(url, resp.page, c)
         IN  IF r.raised THEN error_data(url, r.msg) ELSE r.data

\* a mutant of Stored: the record of a failure replaces the records
\* collected before it
StoredAfterReset(list, rec) ==
    IF Get(rec, "Status") # "completed" THEN <<rec>> ELSE Append(list, rec)

\* all_data.append(data), all_data.append(error_data)
Stored(list, rec) == Append(list, rec)

\* the url of the current iteration, after the scheme check
CurrentUrl == Normalize(su_urls[su_i + 1])

\* the state of a call of scrape_urls(urls) at the top of its loop
Called(urls) ==
    /\ su_urls' = urls
    /\ su_i' = 0
    /\ su_pc' = IF urls = <<>> THEN "return" ELSE "fetch"
    /\ su_resp' = NoResponse
    /\ su_got' = <<>>
    /\ su_trace' = <<>>
    /\ all_data' = <<>>
    /\ su_map' = <<>>

\* requests.get(url, ...) and raise_for_status()
SuFetch ==
    /\ su_pc = "fetch"
    /\ \E resp \in Responses(CurrentUrl) : su_resp' = resp
    /\ su_trace' = Append(su_trace, <<"fetch", su_i>>)
    /\ su_pc' = "process"
    /\ UNCHANGED <<su_urls, su_i, su_got, all_data, su_map>>
    /\ UNCHANGED <<config, sessionVars, renderVars, sheetVars, extractVars>>

\* a mutant of SuStore: the except block goes on to the next URL at once,
\* past the delay
SuStoreSkippingDelay ==
    /\ su_pc = "process"
    /\ LET rec == RecordFor(CurrentUrl, su_resp, config)
       IN  /\ all_data' = Stored(all_data, rec)
           /\ su_map' = Put(su_map, CurrentUrl, rec)
    /\ su_got' = Append(su_got, su_resp)
    /\ su_trace' = Append(su_trace, <<"store", su_i>>)
    /\ su_pc' = IF su_resp.ok THEN "sleep"
                ELSE IF su_i + 1 < Len(su_urls) THEN "fetch" ELSE "return"
    /\ su_i' = IF su_resp.ok THEN su_i ELSE su_i + 1
    /\ UNCHANGED <<su_urls, su_resp>>
    /\ UNCHANGED <<config, sessionVars, renderVars, sheetVars, extractVars>>

\* the rest of the try block, or the except block: the record is stored in
\* the list and in the map
SuStore ==
    /\ su_pc = "process"
    /\ LET rec == RecordFor(CurrentUrl, su_resp, config)
       IN  /\ all_data' = Stored(all_data, rec)
           /\ su_map' = Put(su_map, CurrentUrl, rec)
    /\ su_got' = Append(su_got, su_resp)
    /\ su_trace' = Append(su_trace, <<"store", su_i>>)
    /\ su_pc' = "sleep"
    /\ UNCHANGED <<su_urls, su_i, su_resp>>
    /\ UNCHANGED <<config, sessionVars, renderVars, sheetVars, extractVars>>

\* time.sleep(1), and the loop goes on or ends
SuSleep ==
    /\ su_pc = "sleep"
    /\ su_trace' = Append(su_trace, <<"sleep", su_i>>)
    /\ su_i' = su_i + 1
    /\ su_pc' = IF su_i + 1 < Len(su_urls) THEN "fetch" ELSE "return"
    /\ UNCHANGED <<su_urls, su_resp, su_got, all_data, su_map>>
    /\ UNCHANGED <<config, sessionVars, renderVars, sheetVars, extractVars>>

(***************************************************************************)
(* The results display and the flat exports                                *)
(***************************************************************************)

\* the columns of pd.DataFrame(records): the keys of the records in the
\* order in which they are first seen
RECURSIVE Columns(_, _)
Columns(records, seen) ==
    IF records = <<>> THEN seen
    ELSE Columns(Tail(records),
                 seen \o SelectSeq(Keys(Head(records)),
                                   LAMBDA key : \A k \in 1..Len(seen) : seen[k] # key))

\* a cell of the frame: <<value>>, or <<>> (NaN) where the record has no
\* such key
Cell(rec, col) == IF Has(rec, col) THEN <<Get(rec, col)>> ELSE <<>>

\* pd.DataFrame(records)
DataFrame(records) ==
    LET cols == Columns(records, <<>>)
    IN  [cols |-> cols,
         rows |-> [r \in 1..Len(records) |->
                    [c \in 1..Len(cols) |-> Cell(records[r], cols[c])]]]

\* df[columns]
Project(df, columns) ==
    LET at(col) == CHOOSE c \in 1..Len(df.cols) : df.cols[c] = col
    IN  [cols |-> columns,
         rows |-> [r \in 1..Len(df.rows) |->
                    [c \in 1..Len(columns) |-> df.rows[r][at(columns[c])]]]]

\* display_cols = [col for col in df.columns if col != "All Sections"]
display_cols(df) == SelectSeq(df.cols, LAMBDA col : col # "All Sections")

\* a mutant of to_flat_file: the export writes the displayed columns only
to_flat_file_displayed(df) ==
    LET sub == Project(df, display_cols(df))
    IN  [cols |-> sub.cols,
         rows |-> [r \in 1..Len(sub.rows) |->
                    [c \in 1..Len(sub.cols) |->
                        IF sub.rows[r][c] = <<>> THEN <<"">> ELSE sub.rows[r][c]]]]

\* df.to_csv(index=False), df.to_excel(..., index=False): every column of
\* the frame, a missing value written as the empty field
to_flat_file(df) ==
    [cols |-> df.cols,
     rows |-> [r \in 1..Len(df.rows) |->
                [c \in 1..Len(df.cols) |->
                    IF df.rows[r][c] = <<>> THEN <<"">> ELSE df.rows[r][c]]]]

(***************************************************************************)
(* create_excel_with_multiple_sheets                                       *)
(***************************************************************************)

SummaryColumns ==
    <<"Title", "Status", "H1 Count", "Links", "Images", "Online Registration", "Fee">>

\* summary_row: the URL and data.get(column, "") for the fixed columns
summary_row(url, data) ==
    << <<"URL", url>> >> \o
    [k \in 1..Len(SummaryColumns) |->
        <<SummaryColumns[k],
          IF Has(data, SummaryColumns[k]) THEN Get(data, SummaryColumns[k]) ELSE "">>]

\* a mutant of DataAfterSheet: the pop is done on data itself, not on a copy
DataPoppedInPlace(data) == Without(data, "All Sections")

\* data after its sheet is made: data_copy = data.copy() takes the pop, data
\* keeps every field
DataAfterSheet(data) == data

\* the (Field, Value) rows of the sheet of one record
SheetItems(data) ==
    IF Has(data, "All Sections")
    THEN LET data_copy == Without(data, "All Sections")
             loaded    == json_loads(Get(data, "All Sections"))
         IN  data_copy \o
             (IF loaded.raised THEN <<>>
              ELSE [k \in 1..Len(loaded.value) |->
                        <<"Section: " \o loaded.value[k][1], loaded.value[k][2]>>])
    ELSE data

UpperCase == <<"A","B","C","D","E","F","G","H","I","J","K","L","M",
               "N","O","P","Q","R","S","T","U","V","W","X","Y","Z">>

LowerCase == <<"a","b","c","d","e","f","g","h","i","j","k","l","m",
               "n","o","p","q","r","s","t","u","v","w","x","y","z">>

\* name.lower()
Lower(name) ==
    [k \in 1..Len(name) |->
        IF \E u \in 1..26 : UpperCase[u] = name[k]
        THEN LowerCase[CHOOSE u \in 1..26 : UpperCase[u] = name[k]]
        ELSE name[k]]

SummarySheet == <<"S","u","m","m","a","r","y">>

\* the workbook refuses a new worksheet whose name is, letter case aside,
\* the name of a worksheet it has (DuplicateWorksheetName)
Refused(sheets, sheet_name) ==
    \/ Lower(sheet_name) = Lower(SummarySheet)
    \/ \E k \in 1..Len(sheets) : Lower(sheets[k][1]) = Lower(sheet_name)

\* df.to_excel(writer, sheet_name=...): the rows land in the worksheet of
\* that very name when the workbook has one, over the rows it holds, and in
\* a new worksheet otherwise
WriteSheet(sheets, sheet_name, rows) ==
    IF Has(sheets, sheet_name)
    THEN Put(sheets, sheet_name,
             rows \o Slice(Get(sheets, sheet_name), Len(rows) + 1,
                           Len(Get(sheets, sheet_name))))
    ELSE Append(sheets, <<sheet_name, rows>>)

\* the loop over url_data_map.items() from entry k on: the sheets, or raised
\* when a sheet name cannot be made or the workbook refuses it
RECURSIVE WriteSheets(_, _, _)
WriteSheets(map, k, sheets) ==
    IF k > Len(map) THEN [raised |-> FALSE, sheets |-> sheets]
    ELSE LET named == clean_url_for_sheet_name(map[k][1])
         IN  IF named.raised THEN [raised |-> TRUE, sheets |-> <<>>]
             ELSE IF ~Has(sheets, named.name) /\ Refused(sheets, named.name)
             THEN [raised |-> TRUE, sheets |-> <<>>]
             ELSE WriteSheets(map, k + 1,
                              WriteSheet(sheets, named.name, SheetItems(map[k][2])))

None == [ok |-> FALSE, summary |-> <<>>, sheets |-> <<>>]

\* the call: the workbook, or None after an exception; and the map as the
\* call leaves it
create_excel_with_multiple_sheets(map) ==
    LET written == WriteSheets(map, 1, <<>>)
    IN  [result |-> IF written.raised THEN None
                    ELSE [ok |-> TRUE,
                          summary |-> [k \in 1..Len(map) |->
                                          summary_row(map[k][1], map[k][2])],
                          sheets |-> written.sheets],
         map |-> [k \in 1..Len(map) |-> <<map[k][1], DataAfterSheet(map[k][2])>>]]

\* the workbook of the single-sheet branch: df.to_excel(buffer, index=False,
\* sheet_name='All Data')
single_sheet(df) ==
    [ok |-> TRUE, summary |-> <<>>, sheets |-> << <<"All Data", to_flat_file(df)>> >>]

NotShown == [cols |-> <<>>, rows |-> <<>>]

\* the script from "Display results if available" to its end.  Nothing is
\* shown or exported while scraped_data is empty.
Render ==
    /\ drv_pc \in {"finished", "display"}
    /\ drv_pc' = "idle"
    /\ IF scraped_data = <<>>
       THEN UNCHANGED <<shown, csv, excel_data, url_data_map>>
       ELSE LET df == DataFrame(scraped_data)
            IN  /\ shown' = Project(df, display_cols(df))
                /\ csv' = to_flat_file(df)
                /\ IF config.excel_option = "One sheet per URL"
                   THEN LET made == create_excel_with_multiple_sheets(url_data_map)
                        IN  /\ excel_data' = made.result
                            /\ url_data_map' = made.map
                   ELSE /\ excel_data' = single_sheet(df)
                        /\ url_data_map' = url_data_map
    /\ UNCHANGED <<scraped_data, current_index, trigger_scraping, is_scraping,
                   url_text, drv_i>>
    /\ UNCHANGED <<config, scrapeVars, sheetVars, extractVars>>

(***************************************************************************)
(* The inputs: the options, the lines of the URL text area                 *)
(***************************************************************************)

\* the default options; the options with the counts and the sections off;
\* a title selector that select_one rejects; each with either Excel layout
Configs ==
    { [title_selector |-> sel, extract_meta |-> on, extract_links |-> on,
       extract_images |-> on, extract_sections |-> on, excel_option |-> opt] :
         sel \in {"title"}, on \in BOOLEAN,
         opt \in {"One sheet per URL", "All URLs in one sheet"} }
    \cup
    { [title_selector |-> "div[", extract_meta |-> TRUE, extract_links |-> TRUE,
       extract_images |-> TRUE, extract_sections |-> TRUE,
       excel_option |-> "One sheet per URL"] }

\* a line without a scheme, a line with one whose sheet name is that of the
\* first, a line whose sheet name is that of the first in another letter
\* case, and a line urlparse rejects
UrlLines ==
    { <<"a",".","g","o","v",".","m","y","/","x">>,
      <<"h","t","t","p","s",":","/","/","b",".","g","o","v",".","m","y","/","x">>,
      <<"h","t","t","p","s",":","/","/","c",".","G","O","V",".","m","y","/","x">>,
      <<"h","t","t","p",":","/","/","[","b","a","d">> }

\* the largest number of lines of the URL text area
MaxUrls == 2

\* urls = [url.strip() for url in url_text.split("\n") if url.strip()]
UrlLists == UNION { [1..n -> UrlLines] : n \in 0..MaxUrls }

\* the options as the widgets first show them
DefaultConfig ==
    [title_selector |-> "title", extract_meta |-> TRUE, extract_links |-> TRUE,
     extract_images |-> TRUE, extract_sections |-> TRUE,
     excel_option |-> "One sheet per URL"]

\* the session state of a new session (the "not in st.session_state" block),
\* no call of scrape_urls made, nothing shown
SessionIdle ==
    /\ su_urls = <<>> /\ su_i = 0 /\ su_pc = "idle" /\ su_resp = NoResponse
    /\ su_got = <<>> /\ su_trace = <<>> /\ all_data = <<>> /\ su_map = <<>>
    /\ scraped_data = <<>> /\ url_data_map = <<>> /\ current_index = 0
    /\ trigger_scraping = FALSE /\ is_scraping = FALSE
    /\ drv_pc = "idle" /\ drv_i = 0
    /\ shown = NotShown /\ csv = NotShown /\ excel_data = None

AppIdle == config = DefaultConfig /\ url_text = <<>> /\ SessionIdle

(***************************************************************************)
(* The sheet namer applied to a URL string drawn from a bounded set        *)
(***************************************************************************)

\* the length of the long domain label and of the long path segment: past
\* the sheet-name limit, so that truncation happens
LongLen == 33

Schemes ==
    { <<>>,
      <<"h","t","t","p",":","/","/">>,
      <<"h","t","t","p","s",":","/","/">> }

Netlocs ==
    { <<"a",".","g","o","v",".","m","y">>,
      <<"l","o","c","a","l","h","o","s","t",":","8","0">>,
      <<"[",":",":","1","]">>,
      <<"[","b","a","d">>,
      Rep("d", LongLen) \o <<".","m","y">>,
      <<>> }

Paths ==
    { <<>>,
      <<"/">>,
      <<"/","x">>,
      <<"/","w","e","b","/","2","1","1","/">>,
      <<"/","a","[","1","]",":","*","\\","b">>,
      <<"/">> \o Rep("p", LongLen),
      <<"/","x","/","/">> }

Tails ==
    { <<>>,
      <<"?","q","=","/","z">>,
      <<"#","f","/","g">> }

UrlStrings ==
    { s \o n \o p \o t : s \in Schemes, n \in Netlocs, p \in Paths, t \in Tails }

SheetIdle == sn_url = <<>> /\ sn_pc = "idle" /\ sn_out = [raised |-> FALSE, name |-> <<>>]

ExtractIdle == doc = <<>> /\ ex_pc = "idle" /\ sections = <<>> /\ sec_by = <<>>

SheetInit ==
    /\ sn_url \in UrlStrings
    /\ sn_pc = "call"
    /\ sn_out = [raised |-> FALSE, name |-> <<>>]
    /\ ExtractIdle
    /\ AppIdle

\* sheet_name = clean_url_for_sheet_name(url)
CallSheetName ==
    /\ sn_pc = "call"
    /\ sn_out' = clean_url_for_sheet_name(sn_url)
    /\ sn_pc' = "done"
    /\ UNCHANGED <<sn_url, extractVars, appVars>>

SheetNext == CallSheetName

SpecSheet == SheetInit /\ [][SheetNext]_vars

MaxNodes == 4

\* the elements the documents are built from: a panel container, a heading
\* that ends a sibling scan, a heading that does not, a body container, a
\* paragraph and a paragraph of whitespace
Shapes ==
    { [tag |-> "div", cls |-> <<"panel">>,   txt |-> <<>>],
      [tag |-> "h2",  cls |-> <<"heading">>, txt |-> <<"Introduction">>],
      [tag |-> "h3",  cls |-> <<"title">>,   txt |-> <<"Fees">>],
      [tag |-> "div", cls |-> <<"body">>,    txt |-> <<>>],
      [tag |-> "p",   cls |-> <<>>,          txt |-> <<"RM 10">>],
      [tag |-> "li",  cls |-> <<>>,          txt |-> <<" ">>] }

\* where the next element of a document in document order may hang: under
\* the document itself, under the last element or under one of its ancestors
OpenElements(d) ==
    IF d = <<>> THEN {0}
    ELSE {0, Len(d)} \cup {Ancestors(d, Len(d))[k] : k \in 1..Len(Ancestors(d, Len(d)))}

ExtractInit ==
    /\ doc = <<>>
    /\ ex_pc = "parse"
    /\ sections = <<>>
    /\ sec_by = <<>>
    /\ SheetIdle
    /\ AppIdle

\* soup = BeautifulSoup(markup, 'html.parser'): the parser meets one more
\* element of the markup
ParseElement ==
    /\ ex_pc = "parse"
    /\ Len(doc) < MaxNodes
    /\ \E sh \in Shapes, par \in OpenElements(doc) :
            doc' = Append(doc, El(sh.tag, sh.cls, par, sh.txt))
    /\ UNCHANGED <<ex_pc, sections, sec_by, sheetVars, appVars>>

\* sec_by after a pass made its assignments: each name assigned gets the
\* pass added to the passes that assigned it
RECURSIVE TaggedBy(_, _, _)
TaggedBy(by, assignments, pass) ==
    IF assignments = <<>> THEN by
    ELSE LET name == Head(assignments)[1]
             was  == IF Has(by, name) THEN Get(by, name) ELSE <<>>
         IN  TaggedBy(Put(by, name, Append(was, pass)), Tail(assignments), pass)

\* Step 1, the else branch: panel elements exist
StepPanels ==
    /\ ex_pc = "parse"
    /\ ~RunsHeadingFallback(doc)
    /\ sections' = PutAll(sections, PanelPass(doc))
    /\ sec_by' = TaggedBy(sec_by, PanelPass(doc), "panel")
    /\ ex_pc' = "catalog"
    /\ UNCHANGED <<doc, sheetVars, appVars>>

\* Step 2: no panel element exists
StepHeadings ==
    /\ ex_pc = "parse"
    /\ RunsHeadingFallback(doc)
    /\ sections' = PutAll(sections, HeadingPass(doc))
    /\ sec_by' = TaggedBy(sec_by, HeadingPass(doc), "heading")
    /\ ex_pc' = "catalog"
    /\ UNCHANGED <<doc, sheetVars, appVars>>

\* Step 3 and the return
StepCatalog ==
    /\ ex_pc = "catalog"
    /\ sections' = PutAll(sections, CatalogPass(doc))
    /\ sec_by' = TaggedBy(sec_by, CatalogPass(doc), "catalog")
    /\ ex_pc' = "done"
    /\ UNCHANGED <<doc, sheetVars, appVars>>

ExtractNext == ParseElement \/ StepPanels \/ StepHeadings \/ StepCatalog

SpecExtract == ExtractInit /\ [][ExtractNext]_vars

\* the steps compute what the function returns
StepsAgree == ex_pc = "done" => sections = extract_section_content(doc)

\* C5: the map extract_section_content returns holds no entry with an empty
\* name and no entry with empty content, whichever pass recorded it.
C5_NoEmptyEntries ==
    ex_pc = "done" =>
        \A k \in 1..Len(sections) : sections[k][1] # "" /\ sections[k][2] # ""

\* C6: the catalog pass runs after the panel or heading pass, and whenever
\* it yields content for a catalog name the returned map's entry for that
\* name is the catalog pass's content, whatever an earlier pass recorded
\* under the same name.
C6_CatalogOverwrites ==
    /\ ex_pc = "catalog" =>
            \A k \in 1..Len(sec_by) : "catalog" \notin {sec_by[k][2][j] : j \in 1..Len(sec_by[k][2])}
    /\ ex_pc = "done" =>
            \A k \in 1..Len(common_sections) :
                LET entry == CatalogEntry(doc, common_sections[k])
                IN  entry # <<>> =>
                        /\ Has(sections, common_sections[k])
                        /\ Get(sections, common_sections[k]) = entry[1][2]
                        /\ Get(sec_by, common_sections[k])[Len(Get(sec_by, common_sections[k]))]
                                = "catalog"

\* a name the heading pass recorded with one content and the catalog pass
\* then recorded with another
C6_Witness ==
    /\ ex_pc = "done"
    /\ Has(sec_by, "Introduction")
    /\ Get(sec_by, "Introduction") = <<"heading", "catalog">>
    /\ Get(PutAll(<<>>, HeadingPass(doc)), "Introduction") # Get(sections, "Introduction")

\* C10: when the document has at least one panel/section/accordion-classed
\* element, no entry is recorded from headings, even if the panel pass
\* records no section.
C10_FallbackOnlyWithoutPanels ==
    panels(doc) # <<>> =>
        \A k \in 1..Len(sec_by) : "heading" \notin {sec_by[k][2][j] : j \in 1..Len(sec_by[k][2])}

\* a document with a panel element from which the panel pass records
\* nothing, and with a heading the fallback would have recorded
C10_Witness ==
    /\ ex_pc = "done"
    /\ panels(doc) # <<>>
    /\ PanelPass(doc) = <<>>
    /\ HeadingPass(doc) # <<>>

\* the following siblings of element i that come before its first following
\* sibling with a heading tag
SiblingsBeforeHeading(d, i) ==
    SelectSeq(Indices(d),
              LAMBDA j : /\ j > i
                         /\ d[j].par = d[i].par
                         /\ \A k \in (i + 1)..j :
                                d[k].par = d[i].par => d[k].tag \notin HeadingTags)

\* C11: after the heading fallback, the content recorded under the title of
\* a heading (no other heading having that title) is the text of the
\* heading's following siblings up to, and not including, its first
\* following sibling with a tag h2/h3/h4/h5; no sibling at or after that one
\* is in it.
C11_ScanStopsAtHeadingTag ==
    (ex_pc = "catalog" /\ RunsHeadingFallback(doc)) =>
        LET headers == FindAllTagsClass(doc, 0, HeadingTags \cup {"div"}, HeaderPattern)
        IN  \A h \in 1..Len(headers) :
                LET title  == get_text(doc, headers[h])
                    before == SiblingsBeforeHeading(doc, headers[h])
                IN  (/\ title # ""
                     /\ Has(sections, title)
                     /\ \A g \in 1..Len(headers) :
                            g # h => get_text(doc, headers[g]) # title)
                    => Get(sections, title) =
                            Join([k \in 1..Len(before) |-> get_text(doc, before[k])], "\\n")

(***************************************************************************)
(* scrape_urls applied to a list of URLs, and the display and the exports  *)
(* applied to what it returns                                              *)
(***************************************************************************)

ListInit ==
    /\ config \in Configs
    /\ su_urls \in UrlLists \ {<<>>}
    /\ su_i = 0 /\ su_pc = "fetch" /\ su_resp = NoResponse
    /\ su_got = <<>> /\ su_trace = <<>> /\ all_data = <<>> /\ su_map = <<>>
    /\ scraped_data = <<>> /\ url_data_map = <<>> /\ current_index = 0
    /\ trigger_scraping = TRUE /\ is_scraping = TRUE
    /\ url_text = su_urls /\ drv_pc = "call" /\ drv_i = 0
    /\ shown = NotShown /\ csv = NotShown /\ excel_data = None
    /\ SheetIdle
    /\ ExtractIdle

\* st.session_state.scraped_data, st.session_state.url_data_map = the pair
\* scrape_urls returns, here for the whole list
ListStore ==
    /\ drv_pc = "call"
    /\ su_pc = "return"
    /\ scraped_data' = all_data
    /\ url_data_map' = su_map
    /\ is_scraping' = FALSE
    /\ trigger_scraping' = FALSE
    /\ drv_pc' = "finished"
    /\ UNCHANGED <<current_index, url_text, drv_i>>
    /\ UNCHANGED <<config, scrapeVars, renderVars, sheetVars, extractVars>>

ListNext == SuFetch \/ SuStore \/ SuSleep \/ ListStore \/ Render

SpecList == ListInit /\ [][ListNext]_vars

\* the call of scrape_urls has returned and the script has shown its result
Shown == shown # NotShown

\* C2: a URL whose fetch raised has a record of exactly the three fields
\* URL, Title = "" and Status = "Error: <message>", in the list and in the
\* map: no field an extraction step writes is in it.
C2_FetchFailureRecord ==
    \A k \in 1..Len(all_data) :
        ~su_got[k].ok =>
            LET url == Normalize(su_urls[k])
                rec == << <<"URL", url>>, <<"Title", "">>,
                          <<"Status", "Error: " \o su_got[k].msg>> >>
            IN  /\ all_data[k] = rec
                /\ Has(su_map, url)
                /\ (\A j \in (k + 1)..Len(all_data) : Normalize(su_urls[j]) # url)
                        => Get(su_map, url) = rec

\* a call that has returned, in which the fetch of one URL gave a page and
\* the fetch of another raised
C2_Witness ==
    /\ su_pc = "return"
    /\ \E k \in 1..Len(all_data) :
            /\ ~su_got[k].ok
            /\ su_got[k].msg = "404 Client Error"
            /\ Len(all_data[k]) = 3
    /\ \E k \in 1..Len(all_data) : su_got[k].ok /\ Len(all_data[k]) > 3

\* C3: a failure neither ends the loop nor touches another record: the
\* record of each URL is the one made of that URL and of what its own fetch
\* gave, whatever the other URLs gave, and when the call returns every URL
\* of the list has been fetched and has its record.
C3_FailuresIsolated ==
    /\ Len(all_data) = Len(su_got)
    /\ \A k \in 1..Len(all_data) :
            all_data[k] = RecordFor(Normalize(su_urls[k]), su_got[k], config)
    /\ su_pc = "return" =>
            /\ Len(all_data) = Len(su_urls)
            /\ \A i \in 0..(Len(su_urls) - 1) :
                    \E t \in 1..Len(su_trace) : su_trace[t] = <<"fetch", i>>

\* a call that has returned, in which the first URL failed and a later one
\* was scraped to the end
C3_Witness ==
    /\ su_pc = "return"
    /\ Len(su_urls) > 1
    /\ ~su_got[1].ok
    /\ su_got[Len(su_urls)].ok
    /\ Get(all_data[1], "Status") # "completed"
    /\ Get(all_data[Len(su_urls)], "Status") = "completed"

\* the steps of one iteration of the loop of scrape_urls, in order
IterationSteps == <<"fetch", "store", "sleep">>

\* C12: the URLs are taken one at a time in input order, and the delay
\* follows each of them, failed or not: what a call has done so far is
\* fetch, store, delay of the first URL, then fetch, store, delay of the
\* second, and so on, so the fetch of a URL comes after the record and the
\* delay of the one before it; a call that has returned has done all three
\* for every URL.
C12_OneAtATimeWithDelay ==
    /\ \A t \in 1..Len(su_trace) :
            su_trace[t] = <<IterationSteps[((t - 1) % 3) + 1], (t - 1) \div 3>>
    /\ Len(all_data) = Cardinality({t \in 1..Len(su_trace) : su_trace[t][1] = "store"})
    /\ su_pc = "fetch" => Len(su_trace) = 3 * su_i
    /\ su_pc = "return" => Len(su_trace) = 3 * Len(su_urls)

\* a call that has returned, in which the first URL failed and the second
\* did not: the delay followed both, and the second fetch came after the
\* first delay
C12_Witness ==
    /\ su_pc = "return"
    /\ Len(su_urls) = 2
    /\ ~su_got[1].ok
    /\ su_got[2].ok
    /\ su_trace[3] = <<"sleep", 0>>
    /\ su_trace[4] = <<"fetch", 1>>
    /\ su_trace[6] = <<"sleep", 1>>

\* C13: every record of all_data has the fields URL, Title and Status;
\* Status is "completed" exactly when the fetch gave a page and the
\* extraction raised nothing, and is "Error: " followed by the exception's
\* message otherwise; the keys of url_data_map are the URL fields of the
\* records of all_data, no more and no fewer.
C13_RecordShape ==
    /\ \A k \in 1..Len(all_data) :
            LET rec  == all_data[k]
                url  == Normalize(su_urls[k])
                ran  == ExtractData(url, su_got[k].page, config)
                done == su_got[k].ok /\ ~ran.raised
            IN  /\ Has(rec, "URL") /\ Has(rec, "Title") /\ Has(rec, "Status")
                /\ (Get(rec, "Status") = "completed") <=> done
                /\ ~done => Get(rec, "Status") =
                                "Error: " \o (IF su_got[k].ok THEN ran.msg ELSE su_got[k].msg)
    /\ {su_map[k][1] : k \in 1..Len(su_map)}
            = {Get(all_data[k], "URL") : k \in 1..Len(all_data)}
    /\ \A j, k \in 1..Len(su_map) : j # k => su_map[j][1] # su_map[k][1]

\* a call that has returned with a record of a page whose extraction raised
\* and a record of a fetch that raised, under two keys of the map
C13_Witness ==
    /\ su_pc = "return"
    /\ Len(all_data) = 2
    /\ su_got[1].ok
    /\ Get(all_data[1], "Status") = "Error: Invalid selector"
    /\ ~su_got[2].ok
    /\ Len(su_map) = 2

\* where col is first seen in records: the record and the place in it
FirstSeen(records, col) ==
    LET r == CHOOSE r \in 1..Len(records) :
                /\ Has(records[r], col)
                /\ \A q \in 1..(r - 1) : ~Has(records[q], col)
        k == CHOOSE k \in 1..Len(records[r]) : records[r][k][1] = col
    IN  <<r, k>>

\* cols is the union of the field names of records, but for excluded, each
\* once, in first-seen order
IsFirstSeenUnion(cols, records, excluded) ==
    /\ {cols[c] : c \in 1..Len(cols)} =
            UNION {{records[r][k][1] : k \in 1..Len(records[r])} : r \in 1..Len(records)}
                \ excluded
    /\ \A a, b \in 1..Len(cols) :
            a < b =>
                LET fa == FirstSeen(records, cols[a])
                    fb == FirstSeen(records, cols[b])
                IN  fa[1] < fb[1] \/ (fa[1] = fb[1] /\ fa[2] < fb[2])

\* table has one row per record, and the cell of a record under a column is
\* the record's value of that field, or empty where the record has no such
\* field
RendersRecords(table, records, empty) ==
    /\ Len(table.rows) = Len(records)
    /\ \A r \in 1..Len(records), c \in 1..Len(table.cols) :
            table.rows[r][c] = IF Has(records[r], table.cols[c])
                               THEN <<Get(records[r], table.cols[c])>>
                               ELSE empty

\* C7 as stated: the displayed table and the flat exports have one column
\* set, the first-seen union of the field names without "All Sections"; a
\* record lacking a column renders it as empty.
C7_AsStated ==
    Shown =>
        /\ IsFirstSeenUnion(shown.cols, scraped_data, {"All Sections"})
        /\ IsFirstSeenUnion(csv.cols, scraped_data, {"All Sections"})
        /\ config.excel_option = "All URLs in one sheet" =>
                IsFirstSeenUnion(excel_data.sheets[1][2].cols, scraped_data, {"All Sections"})
        /\ RendersRecords(shown, scraped_data, <<>>)
        /\ RendersRecords(csv, scraped_data, <<"">>)

\* C7: the displayed table's columns are the first-seen union of the field
\* names without "All Sections"; the columns of the CSV and of the
\* single-sheet workbook are the whole first-seen union, "All Sections"
\* included; a record lacking a column renders it as empty.
C7_ColumnSets ==
    Shown =>
        /\ IsFirstSeenUnion(shown.cols, scraped_data, {"All Sections"})
        /\ IsFirstSeenUnion(csv.cols, scraped_data, {})
        /\ config.excel_option = "All URLs in one sheet" =>
                /\ excel_data.ok
                /\ Len(excel_data.sheets) = 1
                /\ IsFirstSeenUnion(excel_data.sheets[1][2].cols, scraped_data, {})
                /\ RendersRecords(excel_data.sheets[1][2], scraped_data, <<"">>)
        /\ RendersRecords(shown, scraped_data, <<>>)
        /\ RendersRecords(csv, scraped_data, <<"">>)

\* two records shown, one with sections and one of a failure, which lacks
\* the columns of the first
C7_Witness ==
    /\ Shown
    /\ Len(scraped_data) = 2
    /\ Has(scraped_data[1], "All Sections")
    /\ Has(scraped_data[1], "Section: Fees")
    /\ ~Has(scraped_data[2], "Links")
    /\ \E c \in 1..Len(csv.cols) : csv.cols[c] = "All Sections"
    /\ \A c \in 1..Len(shown.cols) : shown.cols[c] # "All Sections"
    /\ \E c \in 1..Len(shown.cols) : shown.rows[2][c] = <<>>

\* some entry of map has a URL of which no sheet name can be made, or two
\* entries have sheet names the workbook takes for one
ExportFails(map) ==
    \/ \E k \in 1..Len(map) : clean_url_for_sheet_name(map[k][1]).raised
    \/ \E j, k \in 1..Len(map) :
            /\ j # k
            /\ clean_url_for_sheet_name(map[j][1]).name
                    # clean_url_for_sheet_name(map[k][1]).name
            /\ Lower(clean_url_for_sheet_name(map[j][1]).name)
                    = Lower(clean_url_for_sheet_name(map[k][1]).name)

\* C9: the workbook export leaves url_data_map and scraped_data as they
\* were, keys, fields and values, whether it makes a workbook or fails; a
\* failure gives the one result None.
C9_ExportKeepsRecords ==
    [][Render =>
        /\ url_data_map' = url_data_map
        /\ scraped_data' = scraped_data
        /\ (scraped_data # <<>> /\ config.excel_option = "One sheet per URL") =>
                IF ExportFails(url_data_map)
                THEN excel_data' = None
                ELSE excel_data'.ok]_vars

\* an export that failed on the sheet names of two URLs, one of them with
\* its sections collected
C9_Witness ==
    /\ Shown
    /\ config.excel_option = "One sheet per URL"
    /\ excel_data = None
    /\ Len(url_data_map) = 2
    /\ ~clean_url_for_sheet_name(url_data_map[1][1]).raised
    /\ ~clean_url_for_sheet_name(url_data_map[2][1]).raised
    /\ Has(url_data_map[1][2], "All Sections")

(***************************************************************************)
(* The script: the buttons, the driver loop, the display                   *)
(***************************************************************************)

Init ==
    /\ config \in Configs
    /\ url_text \in UrlLists
    /\ SessionIdle
    /\ SheetIdle
    /\ ExtractIdle

\* if st.button("Resume Scraping"): the script runs again with the button set
ClickResume ==
    /\ drv_pc = "idle"
    /\ trigger_scraping' = TRUE
    /\ drv_pc' = "run"
    /\ UNCHANGED <<scraped_data, url_data_map, current_index, is_scraping, url_text, drv_i>>
    /\ UNCHANGED <<config, scrapeVars, renderVars, sheetVars, extractVars>>

\* if st.button("Reset Progress")
ClickReset ==
    /\ drv_pc = "idle"
    /\ current_index' = 0
    /\ drv_pc' = "run"
    /\ UNCHANGED <<scraped_data, url_data_map, trigger_scraping, is_scraping, url_text, drv_i>>
    /\ UNCHANGED <<config, scrapeVars, renderVars, sheetVars, extractVars>>

\* if st.button("Start Scraping")
ClickStart ==
    /\ drv_pc = "idle"
    /\ trigger_scraping' = TRUE
    /\ drv_pc' = "run"
    /\ UNCHANGED <<scraped_data, url_data_map, current_index, is_scraping, url_text, drv_i>>
    /\ UNCHANGED <<config, scrapeVars, renderVars, sheetVars, extractVars>>

\* the text area is edited: the script runs again with no button set
EditUrls ==
    /\ drv_pc = "idle"
    /\ url_text' \in UrlLists
    /\ drv_pc' = "run"
    /\ UNCHANGED <<scraped_data, url_data_map, current_index, trigger_scraping,
                   is_scraping, drv_i>>
    /\ UNCHANGED <<config, scrapeVars, renderVars, sheetVars, extractVars>>

\* if st.session_state.trigger_scraping: is false
RunSkip ==
    /\ drv_pc = "run"
    /\ ~trigger_scraping
    /\ drv_pc' = "display"
    /\ UNCHANGED <<scraped_data, url_data_map, current_index, trigger_scraping,
                   is_scraping, url_text, drv_i>>
    /\ UNCHANGED <<config, scrapeVars, renderVars, sheetVars, extractVars>>

\* if not urls: st.error("No URLs provided...")
RunNoUrls ==
    /\ drv_pc = "run"
    /\ trigger_scraping
    /\ url_text = <<>>
    /\ trigger_scraping' = FALSE
    /\ drv_pc' = "display"
    /\ UNCHANGED <<scraped_data, url_data_map, current_index, is_scraping, url_text, drv_i>>
    /\ UNCHANGED <<config, scrapeVars, renderVars, sheetVars, extractVars>>

\* else: is_scraping = True; for i in range(current_index, len(urls))
RunBegin ==
    /\ drv_pc = "run"
    /\ trigger_scraping
    /\ url_text # <<>>
    /\ is_scraping' = TRUE
    /\ drv_i' = current_index
    /\ drv_pc' = "loop"
    /\ UNCHANGED <<scraped_data, url_data_map, current_index, trigger_scraping, url_text>>
    /\ UNCHANGED <<config, scrapeVars, renderVars, sheetVars, extractVars>>

\* url = urls[i]; current_index = i; the call scrape_urls([url]) begins
DriverCall ==
    /\ drv_pc = "loop"
    /\ drv_i < Len(url_text)
    /\ current_index' = drv_i
    /\ Called(<<url_text[drv_i + 1]>>)
    /\ drv_pc' = "call"
    /\ UNCHANGED <<scraped_data, url_data_map, trigger_scraping, is_scraping,
                   url_text, drv_i>>
    /\ UNCHANGED <<config, renderVars, sheetVars, extractVars>>

\* st.session_state.scraped_data, st.session_state.url_data_map =
\* scrape_urls([url]): the pair the call returns replaces the pair held
DriverStore ==
    /\ drv_pc = "call"
    /\ su_pc = "return"
    /\ scraped_data' = all_data
    /\ url_data_map' = su_map
    /\ drv_i' = drv_i + 1
    /\ drv_pc' = "loop"
    /\ UNCHANGED <<current_index, trigger_scraping, is_scraping, url_text>>
    /\ UNCHANGED <<config, scrapeVars, renderVars, sheetVars, extractVars>>

\* the range is exhausted: is_scraping = False; trigger_scraping = False
DriverEnd ==
    /\ drv_pc = "loop"
    /\ drv_i >= Len(url_text)
    /\ is_scraping' = FALSE
    /\ trigger_scraping' = FALSE
    /\ drv_pc' = "finished"
    /\ UNCHANGED <<scraped_data, url_data_map, current_index, url_text, drv_i>>
    /\ UNCHANGED <<config, scrapeVars, renderVars, sheetVars, extractVars>>

Next ==
    \/ ClickResume \/ ClickReset \/ ClickStart \/ EditUrls
    \/ RunSkip \/ RunNoUrls \/ RunBegin
    \/ DriverCall \/ SuFetch \/ SuStore \/ SuSleep \/ DriverStore \/ DriverEnd
    \/ Render

Spec == Init /\ [][Next]_vars

\* C1: when a run started on N URLs has finished, scraped_data is N records
\* and its i-th record is that of the i-th URL, scheme added where it had
\* none.
C1_OneRecordPerUrl ==
    drv_pc = "finished" =>
        /\ Len(scraped_data) = Len(url_text)
        /\ \A i \in 1..Len(scraped_data) :
                Get(scraped_data[i], "URL") = Normalize(url_text[i])

\* the Field column of a sheet
Labels(rows) == [k \in 1..Len(rows) |-> rows[k][1]]

\* C8: in the workbook with one sheet per URL, no sheet has two rows with
\* one field label and none has a row for "All Sections".
C8_OneRowPerField ==
    (excel_data.ok /\ config.excel_option = "One sheet per URL") =>
        \A s \in 1..Len(excel_data.sheets) :
            LET labels == Labels(excel_data.sheets[s][2])
            IN  /\ \A a, b \in 1..Len(labels) : a # b => labels[a] # labels[b]
                /\ \A a \in 1..Len(labels) : labels[a] # "All Sections"

=============================================================================
